---- MODULE Spec2Model ----
(***************************************************************************)
(* Model of frontend/scripts.js of modern-data-dashboard: the dataset      *)
(* cache (currentData, fullTableData), the filter controls, the stats and  *)
(* raw-data requests in flight, the table's sort and search handlers, the  *)
(* theme toggle, the PDF export, and the register, login and schedule      *)
(* handlers with the token they keep in localStorage.                      *)
(* initFilters only appends <option> elements and the CSV/Excel export     *)
(* only navigates away; both are left out.                                 *)
(*                                                                         *)
(* Spec runs the filter controls, the answers and the table handlers;      *)
(* SpecView adds the theme toggle and the PDF export to them; SpecAuth     *)
(* runs the auth handlers and page reloads, which read and write none of   *)
(* the table's state; SpecPreset runs the filter controls and the answers  *)
(* alone, with room for one more request.                                  *)
(*                                                                         *)
(* JavaScript strings are sequences of UTF-16 code units (ASCII here), so  *)
(* that toLowerCase, includes, String(number), the default Array sort      *)
(* order and localeCompare are computed rather than assumed.               *)
(***************************************************************************)
EXTENDS Integers, Sequences, FiniteSets, TLC

VARIABLES
    timeFilter,     \* value of #timeFilter (the preset select)
    regionFilter,   \* value of #regionFilter
    productFilter,  \* value of #productFilter
    startDate,      \* value of #startDate
    endDate,        \* value of #endDate
    searchInput,    \* value of #searchInput
    currentData,    \* let currentData
    fullTableData,  \* let fullTableData
    sortDirection,  \* let sortDirection
    tbody,          \* rows of #dataTable tbody, top to bottom
    cards,          \* #total-sales / #total-revenue
    charts,         \* dailySalesChart, productChart, regionChart
    inflight,       \* requests issued and not yet settled
    lastAlert,      \* text of the alert shown by the last handler, <<>> if none
    issued,         \* history: number of requests issued so far
    shownSeq,       \* history: issue number of the stats request whose response is rendered
    sortKey,        \* history: header clicked last, "none" before any click
    clicks,         \* history: number of clicks per header
    lastEvent,      \* history: the handler that ran last
    lastStats,      \* history: issue number of the stats request issued last
    sortedSinceFetch, \* history: a header was clicked after the last rendered answer
    events,         \* history: number of user events handled so far
    dark,           \* document.body has class "dark"
    chartTicks,     \* tick colour the charts were drawn with, <<>> if none
    pdfInflight,    \* POSTs to /api/export/pdf not yet settled
    token,          \* let token
    storedToken,    \* localStorage item "dashboard_token"
    authInflight,   \* register, login and schedule requests not yet settled
    modalHidden,    \* #modal has class "hidden"
    aliased,        \* fullTableData is the very array currentData.table_data
    shownQuery,     \* history: query of the stats request whose response is rendered
    everLoggedIn,   \* history: a register or login has succeeded, in this
                    \* session or in the one that left storedToken
    requestLimit    \* the bound on requests of the run, fixed by the initial state

vars == <<timeFilter, regionFilter, productFilter, startDate, endDate,
          searchInput, currentData, fullTableData, sortDirection, tbody,
          cards, charts, inflight, lastAlert, issued, shownSeq, sortKey,
          clicks, lastEvent, lastStats, sortedSinceFetch, events, dark,
          chartTicks, pdfInflight, token, storedToken, authInflight,
          modalHidden, aliased, shownQuery, everLoggedIn, requestLimit>>

(***************************************************************************)
(* Bounds                                                                  *)
(***************************************************************************)
\* user events (control changes, header clicks, search inputs) in one run
MaxEvents == 3
\* requests issued before the controls stop changing
MaxRequests == 2
\* the same in a run of the filter controls alone
MaxPresetRequests == 3
\* clicks on the auth buttons and page reloads in one run
MaxAuthEvents == 3

(***************************************************************************)
(* Strings                                                                 *)
(***************************************************************************)
Ord(c) ==
    CASE c = " " -> 32 [] c = "!" -> 33 [] c = "&" -> 38 [] c = "-" -> 45
      [] c = "." -> 46 [] c = "/" -> 47 [] c = "0" -> 48 [] c = "1" -> 49
      [] c = "2" -> 50 [] c = "3" -> 51 [] c = "4" -> 52 [] c = "5" -> 53
      [] c = "6" -> 54 [] c = "7" -> 55 [] c = "8" -> 56 [] c = "9" -> 57
      [] c = "@" -> 64 [] c = "A" -> 65 [] c = "B" -> 66 [] c = "C" -> 67
      [] c = "E" -> 69 [] c = "F" -> 70 [] c = "L" -> 76 [] c = "N" -> 78
      [] c = "P" -> 80 [] c = "R" -> 82 [] c = "S" -> 83 [] c = "T" -> 84
      [] c = "Y" -> 89 [] c = "a" -> 97 [] c = "b" -> 98 [] c = "c" -> 99
      [] c = "d" -> 100 [] c = "e" -> 101 [] c = "f" -> 102 [] c = "g" -> 103
      [] c = "h" -> 104 [] c = "i" -> 105 [] c = "k" -> 107 [] c = "l" -> 108
      [] c = "m" -> 109 [] c = "n" -> 110 [] c = "o" -> 111 [] c = "p" -> 112
      [] c = "q" -> 113 [] c = "r" -> 114 [] c = "s" -> 115 [] c = "t" -> 116
      [] c = "u" -> 117 [] c = "v" -> 118 [] c = "w" -> 119 [] c = "y" -> 121

Str(cs) == [i \in 1..Len(cs) |-> Ord(cs[i])]

EmptyStr == <<>>

\* "2024-01-0" \o d
Day(d) == Str(<<"2","0","2","4","-","0","1","-","0">>) \o <<48 + d>>

North == Str(<<"N","o","r","t","h">>)
South == Str(<<"S","o","u","t","h">>)
ProdA == Str(<<"A">>)
ProdB == Str(<<"B">>)

IsUpper(c) == c \in 65..90
IsLower(c) == c \in 97..122
IsDigit(c) == c \in 48..57

toLowerCase(s) == [i \in 1..Len(s) |-> IF IsUpper(s[i]) THEN s[i] + 32 ELSE s[i]]

includes(s, t) ==
    \E i \in 0..(Len(s) - Len(t)) : \A j \in 1..Len(t) : s[i + j] = t[j]

RECURSIVE NumToString(_)
NumToString(n) ==
    IF n < 10 THEN <<48 + n>>
    ELSE NumToString(n \div 10) \o <<48 + (n % 10)>>

\* String(row[k]): sales and revenue are numbers and print in decimal, the
\* other fields are strings already
String(row, k) ==
    IF k \in {"sales", "revenue"} THEN NumToString(row[k]) ELSE row[k]

\* code-unit order, the order of Array.prototype.sort() without a comparator
\* the first index at which two sequences differ, 0 if one is a prefix of
\* the other
FirstDifference(a, b) ==
    LET n == IF Len(a) < Len(b) THEN Len(a) ELSE Len(b)
        D == {i \in 1..n : a[i] # b[i]}
    IN  IF D = {} THEN 0 ELSE CHOOSE i \in D : \A j \in D : i <= j

CodeUnitLess(a, b) ==
    LET i == FirstDifference(a, b)
    IN  IF i = 0 THEN Len(a) < Len(b) ELSE a[i] < b[i]

\* collation weights of String.prototype.localeCompare in the root locale:
\* punctuation < digits < letters, letters alphabetical regardless of case,
\* and at equal letters lower case before upper case
Primary(c) ==
    IF IsUpper(c) THEN 200 + (c - 65)
    ELSE IF IsLower(c) THEN 200 + (c - 97)
    ELSE IF IsDigit(c) THEN 100 + (c - 48)
    ELSE c

Tertiary(c) == IF IsUpper(c) THEN 1 ELSE 0

LexCompare(a, b) ==
    LET i == FirstDifference(a, b)
    IN  IF i = 0
        THEN (IF Len(a) < Len(b) THEN -1 ELSE IF Len(a) > Len(b) THEN 1 ELSE 0)
        ELSE (IF a[i] < b[i] THEN -1 ELSE 1)

localeCompare(a, b) ==
    LET pa == [i \in 1..Len(a) |-> Primary(a[i])]
        pb == [i \in 1..Len(b) |-> Primary(b[i])]
        p  == LexCompare(pa, pb)
    IN  IF p # 0 THEN p
        ELSE LexCompare([i \in 1..Len(a) |-> Tertiary(a[i])],
                        [i \in 1..Len(b) |-> Tertiary(b[i])])

(***************************************************************************)
(* Rows and responses                                                      *)
(***************************************************************************)
Keys == {"date", "product", "region", "sales", "revenue"}

Row(d, p, r, s, v) ==
    [date |-> d, product |-> p, region |-> r, sales |-> s, revenue |-> v]

Null == [kind |-> "null"]

\* a string as a JavaScript value, next to Null
JsString(cs) == [kind |-> "string", value |-> cs]

\* v is truthy: neither null nor ""
Truthy(v) == v.kind = "string" /\ v.value # EmptyStr

\* v || null
OrNull(v) == IF Truthy(v) THEN v ELSE Null

\* what string concatenation and localStorage.setItem make of v
StringOf(v) == IF v.kind = "string" THEN v.value ELSE Str(<<"n","u","l","l">>)

(***************************************************************************)
(* The sort of the header click handler.  Array.prototype.sort is stable   *)
(* (ECMAScript 2019), so the result is the one of an insertion sort that   *)
(* places each row after the rows that do not compare greater.             *)
(***************************************************************************)
\* a comparator that ignores the direction
CompareAscending(key, asc, a, b) ==
    IF key \in {"sales", "revenue"}
    THEN a[key] - b[key]
    ELSE localeCompare(a[key], b[key])

\* the comparator passed to sort
Compare(key, asc, a, b) ==
    IF key \in {"sales", "revenue"}
    THEN IF asc THEN a[key] - b[key] ELSE b[key] - a[key]
    ELSE IF asc THEN localeCompare(a[key], b[key])
                ELSE localeCompare(b[key], a[key])

RECURSIVE Insert(_, _, _, _)
Insert(key, asc, s, x) ==
    IF s = <<>> THEN <<x>>
    ELSE IF Compare(key, asc, Head(s), x) > 0 THEN <<x>> \o s
    ELSE <<Head(s)>> \o Insert(key, asc, Tail(s), x)

RECURSIVE InsertAll(_, _, _, _)
InsertAll(key, asc, done, rest) ==
    IF rest = <<>> THEN done
    ELSE InsertAll(key, asc, Insert(key, asc, done, Head(rest)), Tail(rest))

\* a descending sort made by reversing the ascending one
SortedByReversal(rows, key, asc) ==
    LET up == InsertAll(key, TRUE, <<>>, rows)
    IN  IF asc THEN up ELSE [i \in 1..Len(up) |-> up[Len(up) + 1 - i]]

Sorted(rows, key, asc) == InsertAll(key, asc, <<>>, rows)

\* the term taken as typed
SearchTermAsTyped(value) == value

\* e.target.value.toLowerCase()
SearchTerm(value) == toLowerCase(value)

\* the predicate of the search handler's filter
Matches(row, term) ==
    \E k \in Keys : includes(toLowerCase(String(row, k)), term)

Filtered(rows, term) == SelectSeq(rows, LAMBDA row : Matches(row, term))

\* rows.map(r => r.date).sort()
RECURSIVE InsertDate(_, _)
InsertDate(s, x) ==
    IF s = <<>> THEN <<x>>
    ELSE IF CodeUnitLess(x, Head(s)) THEN <<x>> \o s
    ELSE <<Head(s)>> \o InsertDate(Tail(s), x)

RECURSIVE SortedDates(_)
SortedDates(rows) ==
    IF rows = <<>> THEN <<>>
    ELSE InsertDate(SortedDates(SubSeq(rows, 1, Len(rows) - 1)),
                    rows[Len(rows)].date)

\* sorted.slice(-count)
SliceLast(s, count) ==
    SubSeq(s, (IF Len(s) > count THEN Len(s) - count + 1 ELSE 1), Len(s))

(***************************************************************************)
(* What the backend may answer                                             *)
(***************************************************************************)
RECURSIVE Sum(_, _)
Sum(rows, k) == IF rows = <<>> THEN 0 ELSE Head(rows)[k] + Sum(Tail(rows), k)

RECURSIVE Labels(_, _)
Labels(rows, k) ==
    IF rows = <<>> THEN <<>>
    ELSE LET rest == Labels(SubSeq(rows, 1, Len(rows) - 1), k)
             v    == rows[Len(rows)][k]
         IN  IF \E i \in 1..Len(rest) : rest[i] = v THEN rest ELSE Append(rest, v)

Series(rows, k) ==
    LET ls == Labels(rows, k)
    IN  [i \in 1..Len(ls) |->
            [label |-> ls[i],
             sales |-> Sum(SelectSeq(rows, LAMBDA r : r[k] = ls[i]), "sales")]]

\* the JSON body of a 2xx answer of /api/stats over the given detail rows
StatsBody(rows) ==
    [total_sales       |-> Sum(rows, "sales"),
     total_revenue     |-> Sum(rows, "revenue"),
     daily_sales       |-> Series(rows, "date"),
     sales_by_product  |-> Series(rows, "product"),
     sales_by_region   |-> Series(rows, "region"),
     table_data        |-> rows]

\* the JSON body of a non-2xx answer
ErrorBody == [error |-> Str(<<"b","a","d">>)]

Table1 == << Row(Day(1), ProdA, North, 10, 100),
             Row(Day(2), ProdB, South, 5, 50) >>

Table2 == << Row(Day(1), ProdA, North, 10, 100),
             Row(Day(2), ProdB, South, 10, 50),
             Row(Day(3), ProdA, South, 5, 50) >>

Table3 == << Row(Day(1), ProdB, North, 10, 100),
             Row(Day(2), Str(<<"a">>), South, 5, 50),
             Row(Day(3), ProdA, South, 7, 70) >>

Tables == {Table1, Table2, Table3}

\* bodies /api/stats may answer with
StatsBodies == {StatsBody(rows) : rows \in Tables}

RawRow(d) == Row(Day(d), ProdA, North, 1, 10)

\* row sets /api/data may answer with
RawRowSets ==
    { << RawRow(1), RawRow(2), RawRow(3), RawRow(5) >>,
      << RawRow(5), RawRow(1), RawRow(3), RawRow(5), RawRow(2) >>,
      << >> }

Presets == {"all", "last-3-days", "last-5-days", "custom"}
Regions == {EmptyStr, North}
Products == {EmptyStr, ProdA}
DateInputs == {EmptyStr, Day(2)}
Terms == {EmptyStr, North, Str(<<"5">>)}

(***************************************************************************)
(* Requests                                                                *)
(***************************************************************************)
\* URLSearchParams of fetchAndRender: empty controls are not sent
StatsQuery(sd, ed, region, product) ==
    [start_date |-> sd, end_date |-> ed, region |-> region, product |-> product]

NoQuery == StatsQuery(EmptyStr, EmptyStr, EmptyStr, EmptyStr)

\* (preset is read for /api/data requests only)
StatsRequest(n, sd, ed, region, product) ==
    [seq |-> n, path |-> "stats", query |-> StatsQuery(sd, ed, region, product),
     preset |-> "custom"]

\* the /api/data request of applyFiltersAndRender, with the preset its
\* callback has captured
DataRequest(n, preset) ==
    [seq |-> n, path |-> "data", query |-> NoQuery, preset |-> preset]

\* repeat: the same handler ran with the same argument immediately before;
\* rows: the rows a /api/data answer has delivered to its callback
EventWith(kind, key, term, rows) ==
    [kind |-> kind, key |-> key, term |-> term, rows |-> rows,
     repeat |-> (lastEvent.kind = kind /\ lastEvent.key = key /\ lastEvent.term = term)]

Event(kind, key, term) == EventWith(kind, key, term, <<>>)

(***************************************************************************)
(* Rendering                                                               *)
(***************************************************************************)
\* data.f || dflt
Field(data, f, dflt) == IF f \in DOMAIN data THEN data[f] ELSE dflt

\* rows appended without emptying tbody first
TbodyAppended(old, data) == old \o data

\* the rows of tbody after renderTable(data): tbody.innerHTML = "" and one
\* <tr> per row (a <tr> is identified with the row it prints)
TbodyAfterRender(old, data) == data

renderTable(data) ==
    /\ fullTableData' = data
    /\ tbody' = TbodyAfterRender(tbody, data)

updateSummaryCards(data) ==
    cards' = [sales   |-> Field(data, "total_sales", 0),
              revenue |-> Field(data, "total_revenue", 0)]

\* "#f3f4f6" and "#666"
getTickColor(isDark) ==
    IF isDark THEN <<35, 102, 51, 102, 52, 102, 54>> ELSE <<35, 54, 54, 54>>

\* charts drawn only from a body that has the daily series; the old ones
\* stay otherwise
renderChartsIfSeries(data, isDark) ==
    IF "daily_sales" \in DOMAIN data
    THEN /\ charts' = [daily   |-> Field(data, "daily_sales", <<>>),
                       product |-> Field(data, "sales_by_product", <<>>),
                       region  |-> Field(data, "sales_by_region", <<>>)]
         /\ chartTicks' = getTickColor(isDark)
    ELSE UNCHANGED <<charts, chartTicks>>

\* the charts are drawn with the tick colour of the theme at that moment,
\* isDark being what document.body.classList.contains("dark") answers
renderCharts(data, isDark) ==
    /\ charts' = [daily   |-> Field(data, "daily_sales", <<>>),
                  product |-> Field(data, "sales_by_product", <<>>),
                  region  |-> Field(data, "sales_by_region", <<>>)]
    /\ chartTicks' = getTickColor(isDark)

(***************************************************************************)
(* Initial state: DOMContentLoaded has run, its fetchAndRender() has       *)
(* issued the first stats request and returned at the await.               *)
(***************************************************************************)
InitWith(stored, limit) ==
    /\ timeFilter = "all"
    /\ regionFilter = EmptyStr
    /\ productFilter = EmptyStr
    /\ startDate = EmptyStr
    /\ endDate = EmptyStr
    /\ searchInput = EmptyStr
    /\ currentData = Null
    /\ fullTableData = <<>>
    /\ sortDirection = [k \in Keys |-> FALSE]
    /\ tbody = <<>>
    /\ cards = Null
    /\ charts = Null
    /\ inflight = {StatsRequest(1, EmptyStr, EmptyStr, EmptyStr, EmptyStr)}
    /\ lastAlert = EmptyStr
    /\ issued = 1
    /\ shownSeq = 0
    /\ sortKey = "none"
    /\ clicks = [k \in Keys |-> 0]
    /\ lastEvent = [kind |-> "load", key |-> "", term |-> EmptyStr, rows |-> <<>>,
                    repeat |-> FALSE]
    /\ lastStats = 1
    /\ sortedSinceFetch = FALSE
    /\ events = 0
    /\ dark = FALSE
    /\ chartTicks = EmptyStr
    /\ pdfInflight = 0
    /\ storedToken = stored
    /\ token = OrNull(stored)
    /\ authInflight = {}
    /\ modalHidden = TRUE
    /\ aliased = FALSE
    /\ shownQuery = NoQuery
    /\ everLoggedIn = (stored # Null)
    /\ requestLimit = limit

\* a first visit: nothing is stored
Init == InitWith(Null, MaxRequests)

tableVars == <<searchInput, currentData, fullTableData, sortDirection, tbody,
               cards, charts, shownSeq, sortKey, clicks, sortedSinceFetch,
               chartTicks, aliased, shownQuery>>
filterVars == <<timeFilter, regionFilter, productFilter, startDate, endDate>>
authVars == <<token, storedToken, authInflight, modalHidden, everLoggedIn>>
\* what the filter, answer and table handlers neither read nor write
otherVars == <<authVars, dark, pdfInflight, requestLimit>>

(***************************************************************************)
(* Filter controls: a change event on one of the five controls sets the    *)
(* control and runs applyFiltersAndRender.                                 *)
(***************************************************************************)
\* fetchAndRender up to its first await: the query is read from the
\* controls and the request is sent
fetchAndRenderIssue(sd, ed, region, product) ==
    /\ inflight' = inflight \cup {StatsRequest(issued + 1, sd, ed, region, product)}
    /\ issued' = issued + 1
    /\ lastStats' = issued + 1

applyFiltersAndRender(preset, region, product, sd, ed) ==
    /\ events < MaxEvents
    /\ issued < requestLimit
    /\ events' = events + 1
    /\ timeFilter' = preset
    /\ regionFilter' = region
    /\ productFilter' = product
    /\ lastAlert' = EmptyStr
    /\ lastEvent' = Event("change", "", EmptyStr)
    /\ UNCHANGED <<tableVars, otherVars>>
    /\ IF preset \in {"last-3-days", "last-5-days"}
       THEN /\ inflight' = inflight \cup {DataRequest(issued + 1, preset)}
            /\ issued' = issued + 1
            /\ startDate' = sd
            /\ endDate' = ed
            /\ UNCHANGED lastStats
       ELSE LET clear == preset = "all"
                sd2 == IF clear THEN EmptyStr ELSE sd
                ed2 == IF clear THEN EmptyStr ELSE ed
            IN  /\ startDate' = sd2
                /\ endDate' = ed2
                /\ fetchAndRenderIssue(sd2, ed2, region, product)

ChangeTimeFilter ==
    \E p \in Presets \ {timeFilter} :
        applyFiltersAndRender(p, regionFilter, productFilter, startDate, endDate)

ChangeRegionFilter ==
    \E r \in Regions \ {regionFilter} :
        applyFiltersAndRender(timeFilter, r, productFilter, startDate, endDate)

ChangeProductFilter ==
    \E p \in Products \ {productFilter} :
        applyFiltersAndRender(timeFilter, regionFilter, p, startDate, endDate)

ChangeStartDate ==
    \E d \in DateInputs \ {startDate} :
        applyFiltersAndRender(timeFilter, regionFilter, productFilter, d, endDate)

ChangeEndDate ==
    \E d \in DateInputs \ {endDate} :
        applyFiltersAndRender(timeFilter, regionFilter, productFilter, startDate, d)

(***************************************************************************)
(* Answers                                                                 *)
(***************************************************************************)
\* a fetchAndRender that drops the answer of a superseded request
fetchAndRenderResumeLatestOnly(r, data) ==
    /\ inflight' = inflight \ {r}
    /\ lastAlert' = EmptyStr
    /\ IF r.seq = lastStats
       THEN /\ currentData' = data
            /\ updateSummaryCards(data)
            /\ renderCharts(data, dark)
            /\ renderTable(Field(data, "table_data", <<>>))
            /\ shownSeq' = r.seq
            /\ shownQuery' = r.query
            /\ aliased' = ("table_data" \in DOMAIN data)
            /\ sortedSinceFetch' = FALSE
       ELSE UNCHANGED <<currentData, cards, charts, fullTableData, tbody,
                        shownSeq, sortedSinceFetch, chartTicks, aliased,
                        shownQuery>>
    /\ UNCHANGED <<filterVars, searchInput, sortDirection, sortKey, clicks,
                   issued, events, lastStats, otherVars>>

\* fetchAndRender after its awaits, with the parsed body
fetchAndRenderResume(r, data) ==
    /\ currentData' = data
    /\ updateSummaryCards(data)
    /\ renderCharts(data, dark)
    /\ renderTable(Field(data, "table_data", <<>>))
    /\ shownSeq' = r.seq
    /\ shownQuery' = r.query
    /\ aliased' = ("table_data" \in DOMAIN data)
    /\ sortedSinceFetch' = FALSE
    /\ inflight' = inflight \ {r}
    /\ lastAlert' = EmptyStr
    /\ UNCHANGED <<filterVars, searchInput, sortDirection, sortKey, clicks,
                   issued, events, lastStats, otherVars>>

\* 2xx answer of /api/stats
StatsOk ==
    \E r \in inflight, data \in StatsBodies :
        /\ r.path = "stats"
        /\ fetchAndRenderResume(r, data)
        /\ lastEvent' = Event("stats-ok", "", EmptyStr)

\* non-2xx answer of /api/stats whose body is JSON: res.ok is not looked at
StatsErrorBody ==
    \E r \in inflight :
        /\ r.path = "stats"
        /\ fetchAndRenderResume(r, ErrorBody)
        /\ lastEvent' = Event("stats-error", "", EmptyStr)

\* fetch rejects (transport failure) or res.json() rejects (a non-2xx answer
\* whose body is not JSON): the promise of fetchAndRender rejects, unhandled
StatsRejected ==
    \E r \in inflight :
        /\ r.path = "stats"
        /\ inflight' = inflight \ {r}
        /\ lastAlert' = EmptyStr
        /\ lastEvent' = Event("stats-rejected", "", EmptyStr)
        /\ UNCHANGED <<filterVars, tableVars, issued, events, lastStats, otherVars>>

\* the .then callback of applyFiltersAndRender on the rows of /api/data
DataOk ==
    \E r \in inflight, rows \in RawRowSets :
        /\ r.path = "data"
        /\ lastAlert' = EmptyStr
        /\ lastEvent' = EventWith("data-ok", "", EmptyStr, rows)
        /\ UNCHANGED <<timeFilter, regionFilter, productFilter, tableVars, events,
                       otherVars>>
        /\ LET sorted    == SortedDates(rows)
               count     == IF r.preset = "last-3-days" THEN 3 ELSE 5
               lastDates == SliceLast(sorted, count)
           IN  IF Len(sorted) = 0
               THEN /\ inflight' = inflight \ {r}
                    /\ UNCHANGED <<startDate, endDate, issued, lastStats>>
               ELSE /\ startDate' = lastDates[1]
                    /\ endDate' = lastDates[Len(lastDates)]
                    /\ inflight' = (inflight \ {r}) \cup
                          {StatsRequest(issued + 1, lastDates[1],
                               lastDates[Len(lastDates)], regionFilter, productFilter)}
                    /\ issued' = issued + 1
                    /\ lastStats' = issued + 1

\* /api/data fails, or its body is not an array of rows: the promise chain
\* rejects (unhandled) before the callback has changed anything
DataRejected ==
    \E r \in inflight :
        /\ r.path = "data"
        /\ inflight' = inflight \ {r}
        /\ lastAlert' = EmptyStr
        /\ lastEvent' = Event("data-rejected", "", EmptyStr)
        /\ UNCHANGED <<filterVars, tableVars, issued, events, lastStats, otherVars>>

(***************************************************************************)
(* Table handlers                                                          *)
(***************************************************************************)
\* a single direction flag: the other headers forget theirs
DirectionsAfterClickOneFlag(dirs, key) ==
    [k \in Keys |-> IF k = key THEN ~dirs[key] ELSE FALSE]

\* sortDirection[key] = !sortDirection[key]
DirectionsAfterClick(dirs, key) == [dirs EXCEPT ![key] = ~dirs[key]]

\* fullTableData.sort(...) in place: the fetched array itself is reordered
\* when fullTableData is that array
dataAfterSortInPlace(data, isAliased, sorted) ==
    IF isAliased THEN [data EXCEPT !.table_data = sorted] ELSE data

\* currentData after the click handler's sort: [...fullTableData] is a
\* copy, so the fetched array is not touched, aliased or not
dataAfterSort(data, isAliased, sorted) == data

\* click on the header with data-key = key
ClickHeader ==
    \E key \in Keys :
        /\ events < MaxEvents
        /\ events' = events + 1
        /\ sortDirection' = DirectionsAfterClick(sortDirection, key)
        /\ currentData' = dataAfterSort(currentData, aliased,
                              Sorted(fullTableData, key, sortDirection'[key]))
        /\ renderTable(Sorted(fullTableData, key, sortDirection'[key]))
        /\ aliased' = FALSE
        /\ sortKey' = key
        /\ sortedSinceFetch' = TRUE
        /\ clicks' = [clicks EXCEPT ![key] = clicks[key] + 1]
        /\ lastAlert' = EmptyStr
        /\ lastEvent' = Event("click", key, EmptyStr)
        /\ UNCHANGED <<filterVars, searchInput, cards, charts, chartTicks,
                       inflight, issued, shownSeq, shownQuery, lastStats,
                       otherVars>>

\* input event on #searchInput with the given value
SearchInput ==
    \E value \in Terms :
        /\ events < MaxEvents
        /\ events' = events + 1
        /\ searchInput' = value
        /\ renderTable(Filtered(fullTableData, SearchTerm(value)))
        /\ aliased' = FALSE
        /\ lastAlert' = EmptyStr
        /\ lastEvent' = Event("search", "", value)
        /\ UNCHANGED <<filterVars, currentData, sortDirection, cards, charts,
                       inflight, issued, shownSeq, sortKey, clicks, lastStats,
                       sortedSinceFetch, chartTicks, shownQuery, otherVars>>

Next ==
    \/ ChangeTimeFilter
    \/ ChangeRegionFilter
    \/ ChangeProductFilter
    \/ ChangeStartDate
    \/ ChangeEndDate
    \/ StatsOk
    \/ StatsErrorBody
    \/ StatsRejected
    \/ DataOk
    \/ DataRejected
    \/ ClickHeader
    \/ SearchInput

Spec == Init /\ [][Next]_vars

(***************************************************************************)
(* Theme toggle and PDF export                                             *)
(***************************************************************************)
\* "Charts not ready"
ChartsNotReady ==
    Str(<<"C","h","a","r","t","s"," ","n","o","t"," ","r","e","a","d","y">>)

\* click on #themeToggle: the charts are drawn again from currentData, if
\* there is one, with the tick colour of the new theme
ThemeToggle ==
    /\ events < MaxEvents
    /\ events' = events + 1
    /\ dark' = ~dark
    /\ IF currentData # Null
       THEN renderCharts(currentData, ~dark)
       ELSE UNCHANGED <<charts, chartTicks>>
    /\ lastAlert' = EmptyStr
    /\ lastEvent' = Event("theme", "", EmptyStr)
    /\ UNCHANGED <<filterVars, searchInput, currentData, fullTableData,
                   sortDirection, tbody, cards, shownSeq, sortKey, clicks,
                   sortedSinceFetch, aliased, shownQuery, inflight, issued,
                   lastStats, authVars, pdfInflight, requestLimit>>

\* an export that posts whatever the chart variables hold
pdfRequestsUnguarded(drawn, n) == n + 1

\* the POSTs to /api/export/pdf in flight after a click on #exportPDF:
\* if (!dailySalesChart || !productChart || !regionChart) return alert(...)
\* (renderCharts assigns the three chart variables together)
pdfRequestsAfterClick(drawn, n) == IF drawn = Null THEN n ELSE n + 1

\* click on #exportPDF, up to its first await
exportPDF ==
    /\ events < MaxEvents
    /\ events' = events + 1
    /\ pdfInflight' = pdfRequestsAfterClick(charts, pdfInflight)
    /\ lastAlert' = IF charts = Null THEN ChartsNotReady ELSE EmptyStr
    /\ lastEvent' = Event("pdf", "", EmptyStr)
    /\ UNCHANGED <<filterVars, tableVars, inflight, issued, lastStats, authVars,
                   dark, requestLimit>>

\* the POST settles: the blob is offered as a download, or the promise of
\* exportPDF rejects unhandled; the page's state is the same either way
PdfSettled ==
    /\ pdfInflight > 0
    /\ pdfInflight' = pdfInflight - 1
    /\ lastAlert' = EmptyStr
    /\ lastEvent' = Event("pdf-settled", "", EmptyStr)
    /\ UNCHANGED <<filterVars, tableVars, inflight, issued, lastStats, events,
                   authVars, dark, requestLimit>>

NextView ==
    \/ Next
    \/ ThemeToggle
    \/ exportPDF
    \/ PdfSettled

SpecView == Init /\ [][NextView]_vars

(***************************************************************************)
(* Register, login and schedule                                            *)
(*                                                                         *)
(* The values of #authEmail, #authPassword and #schedTargetEmail are read  *)
(* when a button is clicked; typing into them runs no handler, so they are *)
(* inputs of the click.                                                    *)
(***************************************************************************)
\* "Please login/register first."
PleaseLoginFirst ==
    Str(<<"P","l","e","a","s","e"," ","l","o","g","i","n","/","r","e","g",
          "i","s","t","e","r"," ","f","i","r","s","t",".">>)

\* "Target email required."
TargetEmailRequired ==
    Str(<<"T","a","r","g","e","t"," ","e","m","a","i","l"," ","r","e","q",
          "u","i","r","e","d",".">>)

\* "Email & password required"
EmailAndPasswordRequired ==
    Str(<<"E","m","a","i","l"," ","&"," ","p","a","s","s","w","o","r","d",
          " ","r","e","q","u","i","r","e","d">>)

\* "Registered & logged in"
RegisteredAndLoggedIn ==
    Str(<<"R","e","g","i","s","t","e","r","e","d"," ","&"," ","l","o","g",
          "g","e","d"," ","i","n">>)

\* "Logged in"
LoggedIn ==
    Str(<<"L","o","g","g","e","d"," ","i","n">>)

\* "Registration failed"
RegistrationFailed ==
    Str(<<"R","e","g","i","s","t","r","a","t","i","o","n"," ","f","a","i",
          "l","e","d">>)

\* "Login failed"
LoginFailed ==
    Str(<<"L","o","g","i","n"," ","f","a","i","l","e","d">>)

\* "Failed to schedule"
FailedToSchedule ==
    Str(<<"F","a","i","l","e","d"," ","t","o"," ","s","c","h","e","d","u",
          "l","e">>)

\* "Scheduled! You will receive reports weekly."
Scheduled ==
    Str(<<"S","c","h","e","d","u","l","e","d","!"," ","Y","o","u"," ","w",
          "i","l","l"," ","r","e","c","e","i","v","e"," ","r","e","p","o",
          "r","t","s"," ","w","e","e","k","l","y",".">>)

\* the backend's tokens and error messages, and what the user types
Tokens == {Str(<<"t","1">>), Str(<<"t","2">>)}
StoredValues == {Null} \cup {JsString(t) : t \in Tokens}
TokenBodies == {[token |-> JsString(t)] : t \in Tokens}
Taken == [error |-> Str(<<"t","a","k","e","n">>)]
\* a non-2xx body with a message, and one without
ErrorBodies == {Taken, [detail |-> EmptyStr]}
Email == Str(<<"a","@","b">>)
EmailInputs == {EmptyStr, Email}
PasswordInputs == {EmptyStr, Str(<<"p","w">>)}

\* JSON.stringify({email, password}) posted without Authorization header
CredentialsRequest(n, path, email, password) ==
    [id |-> n, path |-> path, bearer |-> Null,
     body |-> [email |-> email, password |-> password]]

\* s || null
OrNullStr(s) == OrNull(JsString(s))

\* the POST of scheduleEmail: "Bearer " + token and the filters on screen
ScheduleRequest(n, tok, target) ==
    [id |-> n, path |-> "schedule",
     bearer |-> JsString(Str(<<"B","e","a","r","e","r"," ">>) \o StringOf(tok)),
     body |-> [target_email |-> target,
               region       |-> OrNullStr(regionFilter),
               product      |-> OrNullStr(productFilter),
               start_date   |-> OrNullStr(startDate),
               end_date     |-> OrNullStr(endDate),
               freq         |-> "weekly"]]

pageVars == <<filterVars, tableVars, inflight, issued, lastStats, dark,
              pdfInflight, requestLimit>>

\* clicks on #showAuth and #scheduleBtn both take "hidden" off #modal
ShowModal ==
    /\ events < MaxAuthEvents
    /\ events' = events + 1
    /\ modalHidden' = FALSE
    /\ lastAlert' = EmptyStr
    /\ lastEvent' = Event("show-modal", "", EmptyStr)
    /\ UNCHANGED <<pageVars, token, storedToken, authInflight, everLoggedIn>>

\* click on #closeModal
CloseModal ==
    /\ events < MaxAuthEvents
    /\ events' = events + 1
    /\ modalHidden' = TRUE
    /\ lastAlert' = EmptyStr
    /\ lastEvent' = Event("close-modal", "", EmptyStr)
    /\ UNCHANGED <<pageVars, token, storedToken, authInflight, everLoggedIn>>

\* registerUser and loginUser up to the first await
CredentialsClick(path, email, password) ==
    /\ events < MaxAuthEvents
    /\ events' = events + 1
    /\ IF email = EmptyStr \/ password = EmptyStr
       THEN /\ lastAlert' = EmailAndPasswordRequired
            /\ UNCHANGED authInflight
       ELSE /\ lastAlert' = EmptyStr
            /\ authInflight' = authInflight \cup
                  {CredentialsRequest(events + 1, path, email, password)}
    /\ lastEvent' = Event(path \o "-click", "", EmptyStr)
    /\ UNCHANGED <<pageVars, token, storedToken, modalHidden, everLoggedIn>>

\* click on #registerBtn
registerUser ==
    \E email \in EmailInputs, password \in PasswordInputs :
        CredentialsClick("register", email, password)

\* click on #loginBtn
loginUser ==
    \E email \in EmailInputs, password \in PasswordInputs :
        CredentialsClick("login", email, password)

\* a schedule handler without the token check
scheduleAllowedAlways(tok) == TRUE

\* if (!token) return alert("Please login/register first.")
scheduleAllowed(tok) == Truthy(tok)

\* click on #confirmSchedule, up to the first await; prompted is what
\* prompt() would answer if it is asked ("" standing for Cancel as well,
\* both being falsy)
scheduleEmail ==
    \E typed \in EmailInputs, prompted \in EmailInputs :
        LET target == IF typed # EmptyStr THEN typed ELSE prompted
        IN  /\ events < MaxAuthEvents
            /\ events' = events + 1
            /\ IF ~scheduleAllowed(token)
               THEN /\ lastAlert' = PleaseLoginFirst
                    /\ UNCHANGED authInflight
               ELSE IF target = EmptyStr
               THEN /\ lastAlert' = TargetEmailRequired
                    /\ UNCHANGED authInflight
               ELSE /\ lastAlert' = EmptyStr
                    /\ authInflight' = authInflight \cup
                          {ScheduleRequest(events + 1, token, target)}
            /\ lastEvent' = Event("schedule-click", "", EmptyStr)
            /\ UNCHANGED <<pageVars, token, storedToken, modalHidden,
                           everLoggedIn>>

\* a handler that keeps the token in memory only
storedAfterAnswerMemoryOnly(stored, ok, data) == stored

\* localStorage.setItem("dashboard_token", token) under if (res.ok)
storedAfterAnswer(stored, ok, data) ==
    IF ok THEN JsString(StringOf(data.token)) ELSE stored

\* token = data.token under if (res.ok)
tokenAfterAnswer(old, ok, data) == IF ok THEN data.token ELSE old

\* registerUser and loginUser after their awaits: res.ok and the parsed body
CredentialsAnswered(r, ok, data, welcome, failed) ==
    /\ authInflight' = authInflight \ {r}
    /\ token' = tokenAfterAnswer(token, ok, data)
    /\ storedToken' = storedAfterAnswer(storedToken, ok, data)
    /\ everLoggedIn' = (everLoggedIn \/ ok)
    /\ modalHidden' = (modalHidden \/ ok)
    /\ lastAlert' = IF ok THEN welcome
                    ELSE IF Field(data, "error", EmptyStr) # EmptyStr
                    THEN data.error ELSE failed
    /\ lastEvent' = Event(r.path \o (IF ok THEN "-ok" ELSE "-error"), "",
                          Field(data, "error", EmptyStr))
    /\ UNCHANGED <<pageVars, events>>

\* /api/register answers with a JSON body
RegisterAnswered ==
    \E r \in authInflight :
        /\ r.path = "register"
        /\ \/ \E data \in TokenBodies :
                 CredentialsAnswered(r, TRUE, data, RegisteredAndLoggedIn,
                                     RegistrationFailed)
           \/ \E data \in ErrorBodies :
                 CredentialsAnswered(r, FALSE, data, RegisteredAndLoggedIn,
                                     RegistrationFailed)

\* /api/login answers with a JSON body
LoginAnswered ==
    \E r \in authInflight :
        /\ r.path = "login"
        /\ \/ \E data \in TokenBodies :
                 CredentialsAnswered(r, TRUE, data, LoggedIn, LoginFailed)
           \/ \E data \in ErrorBodies :
                 CredentialsAnswered(r, FALSE, data, LoggedIn, LoginFailed)

\* scheduleEmail after its awaits
scheduleEmailResume(r, ok, data) ==
    /\ authInflight' = authInflight \ {r}
    /\ modalHidden' = (modalHidden \/ ok)
    /\ lastAlert' = IF ok THEN Scheduled
                    ELSE IF Field(data, "error", EmptyStr) # EmptyStr
                    THEN data.error ELSE FailedToSchedule
    /\ lastEvent' = Event(IF ok THEN "schedule-ok" ELSE "schedule-error", "",
                          Field(data, "error", EmptyStr))
    /\ UNCHANGED <<pageVars, events, token, storedToken, everLoggedIn>>

\* /api/schedule-email answers with a JSON body
ScheduleAnswered ==
    \E r \in authInflight :
        /\ r.path = "schedule"
        /\ \/ scheduleEmailResume(r, TRUE, [detail |-> EmptyStr])
           \/ \E data \in ErrorBodies : scheduleEmailResume(r, FALSE, data)

\* fetch rejects (transport failure) or res.json() rejects (the body is not
\* JSON): the handler's promise rejects and nothing catches it
AuthRejected ==
    \E r \in authInflight :
        /\ authInflight' = authInflight \ {r}
        /\ lastAlert' = EmptyStr
        /\ lastEvent' = Event(r.path \o "-rejected", "", EmptyStr)
        /\ UNCHANGED <<pageVars, events, token, storedToken, modalHidden,
                       everLoggedIn>>

\* the page is loaded again: the script starts over with what localStorage
\* holds, and the answers to the old page's requests reach nobody
Reload ==
    /\ events < MaxAuthEvents
    /\ events' = events + 1
    /\ token' = OrNull(storedToken)
    /\ authInflight' = {}
    /\ modalHidden' = TRUE
    /\ timeFilter' = "all"
    /\ regionFilter' = EmptyStr
    /\ productFilter' = EmptyStr
    /\ startDate' = EmptyStr
    /\ endDate' = EmptyStr
    /\ searchInput' = EmptyStr
    /\ currentData' = Null
    /\ fullTableData' = <<>>
    /\ sortDirection' = [k \in Keys |-> FALSE]
    /\ tbody' = <<>>
    /\ cards' = Null
    /\ charts' = Null
    /\ chartTicks' = EmptyStr
    /\ aliased' = FALSE
    /\ shownQuery' = NoQuery
    /\ shownSeq' = 0
    /\ sortKey' = "none"
    /\ clicks' = [k \in Keys |-> 0]
    /\ sortedSinceFetch' = FALSE
    /\ dark' = FALSE
    /\ pdfInflight' = 0
    /\ inflight' = {StatsRequest(1, EmptyStr, EmptyStr, EmptyStr, EmptyStr)}
    /\ issued' = 1
    /\ lastStats' = 1
    /\ lastAlert' = EmptyStr
    /\ lastEvent' = Event("reload", "", EmptyStr)
    /\ UNCHANGED <<storedToken, everLoggedIn, requestLimit>>

\* a visit with whatever an earlier session left in localStorage
InitAuth == \E stored \in StoredValues : InitWith(stored, MaxRequests)

NextAuth ==
    \/ ShowModal
    \/ CloseModal
    \/ registerUser
    \/ loginUser
    \/ scheduleEmail
    \/ RegisterAnswered
    \/ LoginAnswered
    \/ ScheduleAnswered
    \/ AuthRejected
    \/ Reload

SpecAuth == InitAuth /\ [][NextAuth]_vars

(***************************************************************************)
(* The filter controls and the answers alone                               *)
(***************************************************************************)
InitPreset == InitWith(Null, MaxPresetRequests)

NextPreset ==
    \/ ChangeTimeFilter
    \/ ChangeRegionFilter
    \/ ChangeProductFilter
    \/ ChangeStartDate
    \/ ChangeEndDate
    \/ StatsOk
    \/ StatsErrorBody
    \/ StatsRejected
    \/ DataOk
    \/ DataRejected

SpecPreset == InitPreset /\ [][NextPreset]_vars

(***************************************************************************)
(* Properties                                                              *)
(***************************************************************************)
TableData(data) == Field(data, "table_data", <<>>)

\* project of the specification: search first, then the sort key
project(dataset, key, asc, term) ==
    LET kept == IF term = EmptyStr THEN dataset ELSE Filtered(dataset, term)
    IN  IF key = "none" THEN kept ELSE Sorted(kept, key, asc)

StatsFailed(kind) == kind \in {"stats-error", "stats-rejected"}

\* C1: the rows shown are project(last fetched table_data, current sort key,
\* current search term), whatever events led to the state.
C1_TableIsProjection ==
    currentData # Null =>
        tbody = project(TableData(currentData), sortKey,
                        (sortKey # "none" /\ sortDirection[sortKey]),
                        toLowerCase(searchInput))

\* C2: a failed stats fetch leaves the dataset cache and the rendered cards,
\* charts and table as they were.
C2_FailedFetchKeepsState ==
    [][StatsFailed(lastEvent'.kind) =>
          UNCHANGED <<currentData, fullTableData, tbody, cards, charts>>]_vars

\* C3: every failed stats fetch shows an alert before its handler finishes.
C3_FailedFetchAlerts ==
    [][StatsFailed(lastEvent'.kind) => lastAlert' # EmptyStr]_vars

\* C4: whichever stats answer is processed, issued last or not, becomes
\* currentData and is what the cards, the charts and the table show.
C4_LastResolvedWins ==
    [][lastEvent'.kind \in {"stats-ok", "stats-error"} =>
          /\ \E r \in inflight \ inflight' : r.path = "stats" /\ shownSeq' = r.seq
          /\ currentData' \in StatsBodies \cup {ErrorBody}
          /\ fullTableData' = TableData(currentData')
          /\ tbody' = TableData(currentData')
          /\ cards' = [sales   |-> Field(currentData', "total_sales", 0),
                       revenue |-> Field(currentData', "total_revenue", 0)]
          /\ charts' = [daily   |-> Field(currentData', "daily_sales", <<>>),
                        product |-> Field(currentData', "sales_by_product", <<>>),
                        region  |-> Field(currentData', "sales_by_region", <<>>)]]_vars

\* nothing is in flight and the data shown answers a request issued before
\* the newest stats request
C4_StaleShown ==
    /\ inflight = {}
    /\ lastEvent.kind = "stats-ok"
    /\ shownSeq >= 1
    /\ shownSeq < lastStats
    /\ currentData \in StatsBodies
    /\ tbody = currentData.table_data

Reverse(s) == [i \in 1..Len(s) |-> s[Len(s) + 1 - i]]

Range(s) == {s[i] : i \in 1..Len(s)}

Count(s, x) == Cardinality({i \in 1..Len(s) : s[i] = x})

IsPermutation(s, t) ==
    /\ Len(s) = Len(t)
    /\ \A x \in Range(s) \cup Range(t) : Count(s, x) = Count(t, x)

DistinctSales(s) ==
    \A i, j \in 1..Len(s) : i # j => s[i].sales # s[j].sales

\* some field of the row, as a lower-cased string, contains the lower-cased term
HasFieldContaining(row, value) ==
    \E k \in Keys :
        includes(toLowerCase(IF k \in {"sales", "revenue"}
                             THEN NumToString(row[k]) ELSE row[k]),
                 toLowerCase(value))

\* the n largest of a set of date strings, and the least and greatest of a set
LargestDates(D, n) ==
    {d \in D : Cardinality({e \in D : CodeUnitLess(d, e)}) < n}
LeastDate(D) == CHOOSE d \in D : \A e \in D : ~CodeUnitLess(e, d)
GreatestDate(D) == CHOOSE d \in D : \A e \in D : ~CodeUnitLess(d, e)

\* C5: on a non-empty /api/data answer under last-3-days or last-5-days, start
\* and end become the least and the greatest of the n largest distinct dates.
C5_PresetRangeOverDistinctDates ==
    [][(lastEvent'.kind = "data-ok" /\ lastEvent'.rows # <<>>) =>
          \E r \in inflight \ inflight' :
              LET n   == IF r.preset = "last-3-days" THEN 3 ELSE 5
                  top == LargestDates({row.date : row \in Range(lastEvent'.rows)}, n)
              IN  /\ startDate' = LeastDate(top)
                  /\ endDate' = GreatestDate(top)]_vars

\* C6: with no header clicked since the last rendered answer and an empty
\* search box, the table shows every fetched row in fetched order.
C6_EmptyTermShowsAll ==
    (currentData # Null /\ ~sortedSinceFetch /\ searchInput = EmptyStr) =>
        tbody = TableData(currentData)

\* C7: right after a search input with a non-empty term every row shown has a
\* field containing the term, case-insensitively, and no row shown before
\* that has such a field is gone.
C7_SearchKeepsExactlyMatches ==
    [][(lastEvent'.kind = "search" /\ lastEvent'.term # EmptyStr) =>
          /\ \A row \in Range(tbody') : HasFieldContaining(row, lastEvent'.term)
          /\ \A row \in Range(tbody) :
                HasFieldContaining(row, lastEvent'.term) => row \in Range(tbody')]_vars

\* the scenario of the specification: "North" typed over the two fetched rows
C7_NorthLeavesFirstRow ==
    /\ lastEvent.kind = "search"
    /\ lastEvent.term = North
    /\ events = 1
    /\ currentData = StatsBody(Table1)
    /\ tbody = <<Table1[1]>>

\* C8: a search input repeating the term of the search input just before it
\* leaves the table's rows and their order as they are.
C8_SearchIdempotent ==
    [][(lastEvent'.kind = "search" /\ lastEvent'.repeat) =>
          /\ tbody' = tbody
          /\ fullTableData' = fullTableData]_vars

C8_RepeatedSearch ==
    /\ lastEvent.kind = "search"
    /\ lastEvent.repeat
    /\ lastEvent.term # EmptyStr
    /\ tbody # <<>>
    /\ Len(tbody) < Len(TableData(currentData))

\* C9: on rows with pairwise distinct sales, the odd clicks on the sales
\* header order the table by ascending sales, the even clicks by descending
\* sales, and a click right after another one reverses the table.
C9_SalesToggleReverses ==
    [][(lastEvent'.kind = "click" /\ lastEvent'.key = "sales"
            /\ DistinctSales(fullTableData)) =>
          /\ IsPermutation(tbody', tbody)
          /\ \A i, j \in 1..Len(tbody') :
                i < j => IF clicks'["sales"] % 2 = 1
                         THEN tbody'[i].sales < tbody'[j].sales
                         ELSE tbody'[i].sales > tbody'[j].sales
          /\ lastEvent'.repeat => tbody' = Reverse(tbody)]_vars

C9_ThirdClickAscending ==
    /\ lastEvent.kind = "click"
    /\ lastEvent.key = "sales"
    /\ lastEvent.repeat
    /\ clicks["sales"] = 3
    /\ Len(tbody) = 3
    /\ DistinctSales(tbody)
    /\ tbody[1].sales < tbody[2].sales
    /\ tbody[2].sales < tbody[3].sales

\* C10: a header click keeps the rows that have the same value in the clicked
\* field in the order they had before the click, in either direction.
C10_SortStable ==
    [][lastEvent'.kind = "click" =>
          \A x \in Range(tbody) :
              LET k == lastEvent'.key
              IN  SelectSeq(tbody', LAMBDA row : row[k] = x[k])
                    = SelectSeq(tbody, LAMBDA row : row[k] = x[k])]_vars

\* a descending click has just sorted a table with two different rows of
\* equal sales
C10_DescendingWithTies ==
    /\ lastEvent.kind = "click"
    /\ lastEvent.key = "sales"
    /\ ~sortDirection["sales"]
    /\ \E i, j \in 1..Len(tbody) :
          i < j /\ tbody[i].sales = tbody[j].sales /\ tbody[i] # tbody[j]

(***************************************************************************)
(* C15: the fetched dataset is never mutated in place.  A header click or  *)
(* a search input leaves currentData as it was, the order of its           *)
(* table_data included, and currentData changes only in the step that      *)
(* processes a stats answer.                                               *)
(***************************************************************************)
C15_NeverMutatedInPlace ==
    [][/\ lastEvent'.kind \in {"click", "search"} => currentData' = currentData
       /\ currentData' # currentData
             => lastEvent'.kind \in {"stats-ok", "stats-error"}]_vars

\* a click has just reordered the rows on display while the fetched rows
\* keep the order they arrived in
C15_SortedCopyShown ==
    /\ lastEvent.kind = "click"
    /\ shownSeq > 0
    /\ Len(fullTableData) = Len(TableData(currentData))
    /\ fullTableData # TableData(currentData)

(***************************************************************************)
(* C16: the sort direction is remembered per field.  A click on header f   *)
(* flips sortDirection[f] and leaves the direction of every other field    *)
(* alone; the direction it applies is ascending on the odd clicks on f and *)
(* descending on the even ones, whatever other headers were clicked and    *)
(* whatever answers were processed in between; no other step changes       *)
(* sortDirection.                                                          *)
(***************************************************************************)
C16_DirectionPerField ==
    [][/\ lastEvent'.kind = "click" =>
             LET f == lastEvent'.key
             IN  /\ sortDirection'[f] = ~sortDirection[f]
                 /\ \A g \in Keys \ {f} : sortDirection'[g] = sortDirection[g]
                 /\ sortDirection'[f] = (clicks'[f] % 2 = 1)
                 /\ tbody' = Sorted(fullTableData, f, clicks'[f] % 2 = 1)
       /\ lastEvent'.kind # "click" => sortDirection' = sortDirection]_vars

\* the second click on sales, with a click on date among the clicks before
\* it, has sorted descending while date still remembers ascending
C16_SalesDateSales ==
    /\ lastEvent.kind = "click"
    /\ lastEvent.key = "sales"
    /\ clicks["sales"] = 2
    /\ clicks["date"] = 1
    /\ ~sortDirection["sales"]
    /\ sortDirection["date"]

(***************************************************************************)
(* C14: a click on the PDF export while the charts have not been drawn     *)
(* alerts "Charts not ready" and posts nothing to /api/export/pdf; the     *)
(* number of PDF requests in flight grows only in a step that starts from  *)
(* a state where the three charts exist.                                   *)
(***************************************************************************)
C14_PdfOnlyWithCharts ==
    [][/\ (lastEvent'.kind = "pdf" /\ charts = Null)
             => (pdfInflight' = pdfInflight /\ lastAlert' = ChartsNotReady)
       /\ pdfInflight' > pdfInflight
             => (charts # Null /\ charts' # Null /\ lastEvent'.kind = "pdf")]_vars

\* the export was clicked before any stats answer was processed: the alert
\* is up and no PDF request is in flight
C14_ExportBeforeFirstAnswer ==
    /\ lastEvent.kind = "pdf"
    /\ shownSeq = 0
    /\ charts = Null
    /\ lastAlert = ChartsNotReady
    /\ pdfInflight = 0

(***************************************************************************)
(* C17: no torn state between handler turns.  Whenever a dataset is held,  *)
(* the summary cards and the three charts are the ones computed from       *)
(* currentData and the rows of fullTableData are a sub-multiset of         *)
(* currentData.table_data; while none is held, nothing is shown.           *)
(***************************************************************************)
SubMultiset(s, t) == \A i \in 1..Len(s) : Count(s, s[i]) <= Count(t, s[i])

C17_NoTornState ==
    IF currentData = Null
    THEN cards = Null /\ charts = Null /\ fullTableData = <<>>
    ELSE /\ cards = [sales   |-> Field(currentData, "total_sales", 0),
                     revenue |-> Field(currentData, "total_revenue", 0)]
         /\ charts = [daily   |-> Field(currentData, "daily_sales", <<>>),
                      product |-> Field(currentData, "sales_by_product", <<>>),
                      region  |-> Field(currentData, "sales_by_region", <<>>)]
         /\ SubMultiset(fullTableData, TableData(currentData))

\* the theme was toggled over a table narrowed by a search: the charts
\* were drawn again, in the dark theme's colour, from the dataset held
C17_RedrawnOverFilteredTable ==
    /\ lastEvent.kind = "theme"
    /\ currentData # Null
    /\ chartTicks = getTickColor(TRUE)
    /\ Len(fullTableData) > 0
    /\ Len(fullTableData) < Len(TableData(currentData))

(***************************************************************************)
(* C11: no schedule request without a token.  A click on the schedule      *)
(* confirmation while the token is null only alerts "Please                *)
(* login/register first." and sends nothing; every POST to                 *)
(* /api/schedule-email is issued from a state that holds a token, carries  *)
(* that token as its bearer, and comes after a successful register or      *)
(* login, of this session or of the one that persisted the token.          *)
(***************************************************************************)
C11_ScheduleNeedsToken ==
    [][/\ (lastEvent'.kind = "schedule-click" /\ token = Null)
             => (authInflight' = authInflight /\ lastAlert' = PleaseLoginFirst)
       /\ \A r \in authInflight' \ authInflight :
             r.path = "schedule"
                => /\ token # Null
                   /\ everLoggedIn
                   /\ r.bearer = JsString(Str(<<"B","e","a","r","e","r"," ">>)
                                             \o token.value)]_vars

\* the schedule confirmation was clicked in a session that never got a
\* token: the alert is up and no schedule request is in flight
C11_ScheduleRefused ==
    /\ lastEvent.kind = "schedule-click"
    /\ token = Null
    /\ ~everLoggedIn
    /\ lastAlert = PleaseLoginFirst
    /\ \A r \in authInflight : r.path # "schedule"

(***************************************************************************)
(* C12: the token in memory is the value persisted under dashboard_token,  *)
(* null when nothing is persisted, after any sequence of register, login,  *)
(* schedule and reload events; the token and the persisted value change    *)
(* only in the step that processes a successful register or login answer.  *)
(***************************************************************************)
C12_TokenIsPersistedToken ==
    /\ [](token = storedToken)
    /\ [][(token' # token \/ storedToken' # storedToken)
             => lastEvent'.kind \in {"register-ok", "login-ok"}]_vars

\* a login has just been refused in a session that holds a token: the
\* token is still held and still the persisted one
C12_RefusedLoginKeepsToken ==
    /\ lastEvent.kind = "login-error"
    /\ token # Null
    /\ token = storedToken

(***************************************************************************)
(* C13: every failed register, login or schedule is notified.  Whenever    *)
(* one of the three fails, by a non-2xx answer or in transport, an alert   *)
(* is shown, and it is the backend's message when the answer carried one.  *)
(***************************************************************************)
AuthFailed(kind) ==
    kind \in {"register-error", "login-error", "schedule-error",
              "register-rejected", "login-rejected", "schedule-rejected"}

C13_AuthFailureNotified ==
    [][AuthFailed(lastEvent'.kind)
          => /\ lastAlert' # EmptyStr
             /\ lastEvent'.term # EmptyStr => lastAlert' = lastEvent'.term]_vars

(***************************************************************************)
(* C18: once every request has settled, the date range agrees with the     *)
(* preset "all": start and end date are empty, and if the data on display  *)
(* answers the newest stats request, that request carried neither          *)
(* start_date nor end_date; in particular when "all" was selected while    *)
(* the /api/data request of a last-3-days or last-5-days selection was     *)
(* still in flight.                                                        *)
(***************************************************************************)
C18_AllPresetClearsDates ==
    (inflight = {} /\ timeFilter = "all")
        => /\ startDate = EmptyStr
           /\ endDate = EmptyStr
           /\ shownSeq = lastStats
                 => /\ shownQuery.start_date = EmptyStr
                    /\ shownQuery.end_date = EmptyStr

====
